---------------------------- MODULE Spec2Model ----------------------------
(***************************************************************************)
(* State-machine model of src/backend/server.py: identity (register, sync, *)
(* get_current_user, the moderator guard), the moderation workflow, the    *)
(* per-user daily post quota, the reactions, and the store queries (feed,  *)
(* pending, approved, stats).  The document store is the pair (users,      *)
(* posts); every                                                           *)
(* `await db...` of a handler is one atomic store step, and the steps of   *)
(* concurrent requests interleave freely.                                  *)
(*                                                                         *)
(* Identifiers: User.id and Post.id are fresh uuid4 strings in the code;   *)
(* here a record's identifier is its position in its collection, which is  *)
(* also the store's natural (insertion) order.  Records are never deleted. *)
(* User.created_at is written once and read by no handler; it is left out. *)
(***************************************************************************)
EXTENDS Integers, Sequences, FiniteSets, TLC

(***************************************************************************)
(* Bounds of the model.                                                    *)
(***************************************************************************)
TicksPerDay == 2
\* moderation specifications
MaxPostsM == 2
MaxNowM == 1
\* quota specifications
MaxPostsQ == 4
MaxNowQ == 3
\* feed specification
MaxPostsF == 4
MaxNowF == 2
\* approval specification
MaxPostsA == 4
MaxNowA == 2
\* list specification: the small stores
MaxPostsL == 2
MaxNowL == 1
\* guard specification
MaxPostsG == 1
MaxNowG == 1
\* identity specification
MaxPostsI == 1
MaxReactI == 1
\* error specification
MaxPostsE == 3
MaxNowE == 2
\* record specification
MaxPostsK == 1
\* reaction specification
MaxPostsR == 1
MaxReactR == 2

(***************************************************************************)
(* Program constants.                                                      *)
(***************************************************************************)
DailyLimit == 3
FeedLimit == 3
ListCap == 100

Procs == {"r1", "r2"}

NEW_USER == "new_user"
MODERATOR == "moderator"
SEED_USER == "seed_user"
UserRole == {NEW_USER, MODERATOR, SEED_USER}

PENDING == "pending"
APPROVED == "approved"
REJECTED == "rejected"
PostStatus == {PENDING, APPROVED, REJECTED}

\* The tags and contents that requests carry (the enumeration has seven tags;
\* no handler branches on the tag or on the content).
ContentTag == {"Human2Human"}
Contents == {"text"}

\* Token subjects.  NoSub is a payload without 'sub'.
NoSub == "none"
Subjects == {"mod", "seed", "alice", "bob"}
EmailOf(sub) == sub

NoDate == -1
NoTime == -1
NoId == 0

\* The invite code that register_user compares with, and the codes requests carry
\* (NoSub: no invite_code in the body).
InviteCode == "aieventuallylose"
InviteCodes == {InviteCode, "wrong", NoSub}

VARIABLES users, posts, now, pc, op, user, args, resp, ret

vars == <<users, posts, now, pc, op, user, args, resp, ret>>

\* datetime.now(timezone.utc).strftime('%Y-%m-%d'): the calendar day of an instant.
Day(t) == t \div TicksPerDay

NewUser(sub, email, role) ==
    [clerk_id |-> sub, email |-> email, role |-> role,
     posts_today |-> 0, last_post_date |-> NoDate]

NewPost(uid, content, tag, t) ==
    [user_id |-> uid, content |-> content, tag |-> tag, status |-> PENDING,
     resonates |-> 0, cherishes |-> 0, created_at |-> t,
     reviewed_at |-> NoTime, reviewer_id |-> NoId]

NoUser == [id |-> NoId, role |-> NEW_USER, posts_today |-> 0, last_post_date |-> NoDate]
NoArgs == [sub |-> NoSub, post_id |-> NoId, status |-> PENDING, ts |-> NoTime,
           email |-> NoSub, invite_code |-> NoSub]

Range(s) == {s[i] : i \in DOMAIN s}

Min(a, b) == IF a <= b THEN a ELSE b

\* db.users.find_one({"clerk_id": clerk_id}): the first match in natural order, or NoId.
FindUserByClerkId(sub) ==
    LET hits == {i \in DOMAIN users : users[i].clerk_id = sub}
    IN  IF hits = {} THEN NoId ELSE CHOOSE i \in hits : \A j \in hits : i <= j

\* A lookup that answers 401 where no local record exists.
get_current_user_Unauthorized(sub) ==
    LET i == FindUserByClerkId(sub)
    IN  IF sub = NoSub \/ i = NoId THEN [code |-> "401", u |-> NoUser]
        ELSE [code |-> "200",
              u |-> [id |-> i, role |-> users[i].role,
                     posts_today |-> users[i].posts_today,
                     last_post_date |-> users[i].last_post_date]]

\* Depends(get_current_user): 401 without a subject, 404 without a local record,
\* otherwise the User object built from the stored record.
get_current_user(sub) ==
    IF sub = NoSub THEN [code |-> "401", u |-> NoUser]
    ELSE LET i == FindUserByClerkId(sub)
         IN  IF i = NoId THEN [code |-> "404", u |-> NoUser]
             ELSE [code |-> "200",
                   u |-> [id |-> i, role |-> users[i].role,
                          posts_today |-> users[i].posts_today,
                          last_post_date |-> users[i].last_post_date]]

\* A role check that lets every role through.
IsPrivileged_AnyRole(role) == role \in UserRole

IsPrivileged(role) == role \in {MODERATOR, SEED_USER}

\* Depends(require_moderator): get_current_user, then the role check.
require_moderator(sub) ==
    LET r == get_current_user(sub)
    IN  IF r.code = "200" /\ ~IsPrivileged(r.u.role)
        THEN [code |-> "403", u |-> NoUser]
        ELSE r

\* The users collection when the service starts: a moderator and a seed user
\* (no handler gives the subject of a token a privileged role: those are
\* assigned in the store) and one user who has synced before.
SeedUsers ==
    << NewUser("mod", EmailOf("mod"), MODERATOR),
       NewUser("seed", EmailOf("seed"), SEED_USER),
       NewUser("alice", EmailOf("alice"), NEW_USER) >>

Idle(p) ==
    /\ pc' = [pc EXCEPT ![p] = "idle"]
    /\ op' = [op EXCEPT ![p] = "none"]
    /\ user' = [user EXCEPT ![p] = NoUser]
    /\ args' = [args EXCEPT ![p] = NoArgs]
    /\ resp' = [resp EXCEPT ![p] = "none"]
    /\ ret' = [ret EXCEPT ![p] = <<>>]

\* The handler of request slot p ends with status `code` and body `body`.
Finish(p, o, code, body) ==
    /\ pc' = [pc EXCEPT ![p] = "done"]
    /\ op' = [op EXCEPT ![p] = o]
    /\ resp' = [resp EXCEPT ![p] = code]
    /\ ret' = [ret EXCEPT ![p] = body]

Init ==
    /\ users = SeedUsers
    /\ posts = <<>>
    /\ now = 0
    /\ pc = [p \in Procs |-> "idle"]
    /\ op = [p \in Procs |-> "none"]
    /\ user = [p \in Procs |-> NoUser]
    /\ args = [p \in Procs |-> NoArgs]
    /\ resp = [p \in Procs |-> "none"]
    /\ ret = [p \in Procs |-> <<>>]

\* The wall clock advances.
Tick ==
    /\ now' = now + 1
    /\ UNCHANGED <<users, posts, pc, op, user, args, resp, ret>>

\* The response of a finished request is delivered; the slot is free again.
Return(p) ==
    /\ pc[p] = "done"
    /\ Idle(p)
    /\ UNCHANGED <<users, posts, now>>


(***************************************************************************)
(* Store queries.  sort("created_at", dir) orders by creation time; the    *)
(* store fixes no order among equal keys, so a sort has every order of the *)
(* ties as a possible result.                                              *)
(***************************************************************************)
\* db.posts.find({"status": status})
Find(status) == {i \in DOMAIN posts : posts[i].status = status}

\* Whether post i may stand before post j under sort("created_at", dir).
InOrder(i, j, dir) ==
    IF dir = 1 THEN posts[i].created_at <= posts[j].created_at
               ELSE posts[i].created_at >= posts[j].created_at

RECURSIVE Perms(_)
\* The orders in which documents with one and the same key may come.
Perms(S) ==
    IF S = {} THEN {<<>>}
    ELSE UNION {{<<x>> \o r : r \in Perms(S \ {x})} : x \in S}

RECURSIVE SortRange(_, _, _, _)
\* The sorted sequences of the posts of S, whose keys lie in lo..hi: the posts
\* of the lower half of the key range, sorted, then (dir = 1) or after
\* (dir = -1) those of the upper half, sorted.
SortRange(S, lo, hi, dir) ==
    IF S = {} THEN {<<>>}
    ELSE IF lo >= hi THEN Perms(S)
    ELSE LET mid == (lo + hi) \div 2
             A == SortRange({i \in S : posts[i].created_at <= mid}, lo, mid, dir)
             B == SortRange({i \in S : posts[i].created_at > mid}, mid + 1, hi, dir)
         IN  IF dir = 1 THEN {a \o b : a \in A, b \in B}
                        ELSE {b \o a : a \in A, b \in B}

\* cursor.sort("created_at", dir): the sorted sequences of the post set S.
Sorts(S, dir) ==
    LET keys == {posts[i].created_at : i \in S}
    IN  IF S = {} THEN {<<>>}
        ELSE SortRange(S, CHOOSE k \in keys : \A l \in keys : k <= l,
                          CHOOSE k \in keys : \A l \in keys : k >= l, dir)

\* A limit that drops one document more.
Limit_Short(s, n) == SubSeq(s, 1, Min(n, Len(s)) - 1)

\* cursor.limit(n) / cursor.to_list(n): the first n documents.
Limit(s, n) == SubSeq(s, 1, Min(n, Len(s)))

\* The feed sorted oldest first.
FeedResults_Ascending == {Limit(s, FeedLimit) : s \in Sorts(Find(APPROVED), 1)}

\* find({"status": APPROVED}).sort("created_at", -1).limit(3).to_list(3)
FeedResults == {Limit(s, FeedLimit) : s \in Sorts(Find(APPROVED), -1)}

\* The moderation queue sorted newest first.
PendingResults_Descending == {Limit(s, ListCap) : s \in Sorts(Find(PENDING), -1)}

\* find({"status": PENDING}).sort("created_at", 1).to_list(100)
PendingResults == {Limit(s, ListCap) : s \in Sorts(Find(PENDING), 1)}

\* find({"status": APPROVED}).sort("created_at", -1).to_list(100)
ApprovedResults == {Limit(s, ListCap) : s \in Sorts(Find(APPROVED), -1)}

(***************************************************************************)
(* POST /auth/sync                                                         *)
(***************************************************************************)
\* A sync that does not look for the record.
sync_user_AlwaysInsert(p, sub, hasEmail) ==
    /\ pc[p] = "idle"
    /\ IF sub = NoSub \/ ~hasEmail
       THEN /\ Finish(p, "sync_user", "400", <<>>)
            /\ UNCHANGED <<user, args>>
       ELSE /\ pc' = [pc EXCEPT ![p] = "sync_insert"]
            /\ op' = [op EXCEPT ![p] = "sync_user"]
            /\ args' = [args EXCEPT ![p].sub = sub]
            /\ UNCHANGED <<user, resp, ret>>
    /\ UNCHANGED <<users, posts, now>>

\* sync_user up to its find_one: 400 on a payload without sub or email,
\* "User exists" when a record is found, otherwise on to the insert.
sync_user(p, sub, hasEmail) ==
    /\ pc[p] = "idle"
    /\ IF sub = NoSub \/ ~hasEmail
       THEN /\ Finish(p, "sync_user", "400", <<>>)
            /\ UNCHANGED <<user, args>>
       ELSE LET i == FindUserByClerkId(sub)
            IN  IF i # NoId
                THEN /\ Finish(p, "sync_user", "200", <<"User exists", i>>)
                     /\ UNCHANGED <<user, args>>
                ELSE /\ pc' = [pc EXCEPT ![p] = "sync_insert"]
                     /\ op' = [op EXCEPT ![p] = "sync_user"]
                     /\ args' = [args EXCEPT ![p].sub = sub]
                     /\ UNCHANGED <<user, resp, ret>>
    /\ UNCHANGED <<users, posts, now>>

\* db.users.insert_one(new_user.dict())
sync_user_insert(p) ==
    /\ pc[p] = "sync_insert"
    /\ users' = Append(users, NewUser(args[p].sub, EmailOf(args[p].sub), NEW_USER))
    /\ Finish(p, "sync_user", "200", <<"User created", Len(users) + 1>>)
    /\ UNCHANGED <<posts, now, user, args>>

(***************************************************************************)
(* POST /posts                                                             *)
(***************************************************************************)
\* The request arrives and its dependency get_current_user reads the user.
create_post(p, sub) ==
    /\ pc[p] = "idle"
    /\ LET r == get_current_user(sub)
       IN  IF r.code # "200"
           THEN /\ Finish(p, "create_post", r.code, <<>>)
                /\ UNCHANGED user
           ELSE /\ pc' = [pc EXCEPT ![p] = "check_daily_limit"]
                /\ op' = [op EXCEPT ![p] = "create_post"]
                /\ user' = [user EXCEPT ![p] = r.u]
                /\ UNCHANGED <<resp, ret>>
    /\ UNCHANGED <<users, posts, now, args>>

\* The comparison off by one.
OverLimit_OffByOne(n) == n > DailyLimit

\* `if user.posts_today >= 3` of check_daily_limit.
OverLimit(n) == n >= DailyLimit

\* A check without the reset for a new day.
check_daily_limit_NoReset(p) ==
    /\ pc[p] = "check_daily_limit"
    /\ IF OverLimit(user[p].posts_today)
       THEN /\ Finish(p, "create_post", "429", <<>>)
            /\ UNCHANGED args
       ELSE /\ pc' = [pc EXCEPT ![p] = "insert_post"]
            /\ args' = [args EXCEPT ![p].ts = now]
            /\ UNCHANGED <<op, resp, ret>>
    /\ UNCHANGED <<users, posts, now, user>>

\* A check that writes the reset to the store but tests the count it had read.
check_daily_limit_StaleCount(p) ==
    /\ pc[p] = "check_daily_limit"
    /\ LET today == Day(now)
           u == user[p]
       IN  /\ users' = IF u.last_post_date # today
                       THEN [users EXCEPT ![u.id].posts_today = 0,
                                          ![u.id].last_post_date = today]
                       ELSE users
           /\ IF OverLimit(u.posts_today)
              THEN /\ Finish(p, "create_post", "429", <<>>)
                   /\ UNCHANGED args
              ELSE /\ pc' = [pc EXCEPT ![p] = "insert_post"]
                   /\ args' = [args EXCEPT ![p].ts = now]
                   /\ UNCHANGED <<op, resp, ret>>
    /\ UNCHANGED <<posts, now, user>>

\* check_daily_limit(user), then the construction of the Post (which reads
\* the clock for created_at) up to the call of insert_one.
check_daily_limit(p) ==
    /\ pc[p] = "check_daily_limit"
    /\ LET today == Day(now)
           u == user[p]
           rolled == u.last_post_date # today
           u2 == IF rolled
                 THEN [u EXCEPT !.posts_today = 0, !.last_post_date = today]
                 ELSE u
       IN  /\ users' = IF rolled
                       THEN [users EXCEPT ![u.id].posts_today = 0,
                                          ![u.id].last_post_date = today]
                       ELSE users
           /\ user' = [user EXCEPT ![p] = u2]
           /\ IF OverLimit(u2.posts_today)
              THEN /\ Finish(p, "create_post", "429", <<>>)
                   /\ UNCHANGED args
              ELSE /\ pc' = [pc EXCEPT ![p] = "insert_post"]
                   /\ args' = [args EXCEPT ![p].ts = now]
                   /\ UNCHANGED <<op, resp, ret>>
    /\ UNCHANGED <<posts, now>>

\* db.posts.insert_one(post.dict())
create_post_insert(p) ==
    /\ pc[p] = "insert_post"
    /\ \E c \in Contents, t \in ContentTag :
          posts' = Append(posts, NewPost(user[p].id, c, t, args[p].ts))
    /\ pc' = [pc EXCEPT ![p] = "inc_posts_today"]
    /\ args' = [args EXCEPT ![p].post_id = Len(posts) + 1]
    /\ UNCHANGED <<users, now, op, user, resp, ret>>

\* db.users.update_one({"id": user.id}, {"$inc": {"posts_today": 1}})
create_post_inc(p) ==
    /\ pc[p] = "inc_posts_today"
    /\ users' = [users EXCEPT ![user[p].id].posts_today = @ + 1]
    /\ Finish(p, "create_post", "200", <<args[p].post_id>>)
    /\ UNCHANGED <<posts, now, user, args>>

(***************************************************************************)
(* PUT /posts/{post_id}/review                                             *)
(***************************************************************************)
\* The request arrives with its path parameter and its PostUpdate body
\* (status is any PostStatus); the dependency require_moderator runs.
review_post(p, sub, post_id, status) ==
    /\ pc[p] = "idle"
    /\ LET r == require_moderator(sub)
       IN  IF r.code # "200"
           THEN /\ Finish(p, "review_post", r.code, <<>>)
                /\ UNCHANGED <<user, args>>
           ELSE /\ pc' = [pc EXCEPT ![p] = "find_post"]
                /\ op' = [op EXCEPT ![p] = "review_post"]
                /\ user' = [user EXCEPT ![p] = r.u]
                /\ args' = [args EXCEPT ![p].post_id = post_id, ![p].status = status]
                /\ UNCHANGED <<resp, ret>>
    /\ UNCHANGED <<users, posts, now>>

\* db.posts.find_one({"id": post_id}) and the two checks on what it returned.
review_post_find(p) ==
    /\ pc[p] = "find_post"
    /\ IF args[p].post_id \notin DOMAIN posts
       THEN Finish(p, "review_post", "404", <<>>)
       ELSE IF posts[args[p].post_id].status # PENDING
       THEN Finish(p, "review_post", "400", <<>>)
       ELSE /\ pc' = [pc EXCEPT ![p] = "update_post"]
            /\ UNCHANGED <<op, resp, ret>>
    /\ UNCHANGED <<users, posts, now, user, args>>

\* A review that replaces the document by a Post with fresh counters.
review_post_update_Replace(p) ==
    /\ pc[p] = "update_post"
    /\ posts' = [posts EXCEPT ![args[p].post_id].status = args[p].status,
                              ![args[p].post_id].reviewed_at = now,
                              ![args[p].post_id].reviewer_id = user[p].id,
                              ![args[p].post_id].resonates = 0,
                              ![args[p].post_id].cherishes = 0]
    /\ Finish(p, "review_post", "200", <<>>)
    /\ UNCHANGED <<users, now, user, args>>

\* db.posts.update_one({"id": post_id}, {"$set": {status, reviewed_at, reviewer_id}}):
\* no condition on the stored status.  reviewed_at is the clock read when the
\* update is issued.
review_post_update(p) ==
    /\ pc[p] = "update_post"
    /\ posts' = [posts EXCEPT ![args[p].post_id].status = args[p].status,
                              ![args[p].post_id].reviewed_at = now,
                              ![args[p].post_id].reviewer_id = user[p].id]
    /\ Finish(p, "review_post", "200", <<>>)
    /\ UNCHANGED <<users, now, user, args>>

(***************************************************************************)
(* GET /feed, GET /posts/pending, GET /posts/approved                      *)
(***************************************************************************)
\* A read-only request arrives and its dependency `dep` runs.
BeginQuery(p, o, r) ==
    /\ pc[p] = "idle"
    /\ IF r.code # "200"
       THEN /\ Finish(p, o, r.code, <<>>)
            /\ UNCHANGED user
       ELSE /\ pc' = [pc EXCEPT ![p] = "query"]
            /\ op' = [op EXCEPT ![p] = o]
            /\ user' = [user EXCEPT ![p] = r.u]
            /\ UNCHANGED <<resp, ret>>
    /\ UNCHANGED <<users, posts, now, args>>

get_daily_feed(p, sub) == BeginQuery(p, "get_daily_feed", get_current_user(sub))

\* The find of get_daily_feed; the per-post find_one on users that follows
\* only reads, and the user_email it adds is no field of Post.
get_daily_feed_find(p) ==
    /\ pc[p] = "query"
    /\ op[p] = "get_daily_feed"
    /\ \E f \in FeedResults : Finish(p, "get_daily_feed", "200", f)
    /\ UNCHANGED <<users, posts, now, user, args>>

get_pending_posts(p, sub) == BeginQuery(p, "get_pending_posts", require_moderator(sub))

get_pending_posts_find(p) ==
    /\ pc[p] = "query"
    /\ op[p] = "get_pending_posts"
    /\ \E f \in PendingResults : Finish(p, "get_pending_posts", "200", f)
    /\ UNCHANGED <<users, posts, now, user, args>>

get_approved_posts(p, sub) == BeginQuery(p, "get_approved_posts", require_moderator(sub))

get_approved_posts_find(p) ==
    /\ pc[p] = "query"
    /\ op[p] = "get_approved_posts"
    /\ \E f \in ApprovedResults : Finish(p, "get_approved_posts", "200", f)
    /\ UNCHANGED <<users, posts, now, user, args>>

(***************************************************************************)
(* GET /me, GET /stats                                                     *)
(***************************************************************************)
\* get_me returns what its dependency get_current_user read.
get_me(p, sub) ==
    /\ pc[p] = "idle"
    /\ LET r == get_current_user(sub)
       IN  Finish(p, "get_me", r.code, IF r.code = "200" THEN <<r.u.id>> ELSE <<>>)
    /\ UNCHANGED <<users, posts, now, user, args>>

get_stats(p, sub) == BeginQuery(p, "get_stats", require_moderator(sub))

\* count_documents({"status": PENDING})
get_stats_pending(p) ==
    /\ pc[p] = "query"
    /\ op[p] = "get_stats"
    /\ pc' = [pc EXCEPT ![p] = "count_approved"]
    /\ ret' = [ret EXCEPT ![p] = <<Cardinality(Find(PENDING))>>]
    /\ UNCHANGED <<users, posts, now, op, user, args, resp>>

\* count_documents({"status": APPROVED})
get_stats_approved(p) ==
    /\ pc[p] = "count_approved"
    /\ pc' = [pc EXCEPT ![p] = "count_users"]
    /\ ret' = [ret EXCEPT ![p] = Append(@, Cardinality(Find(APPROVED)))]
    /\ UNCHANGED <<users, posts, now, op, user, args, resp>>

\* db.users.count_documents({}), and the response with the three counts.
get_stats_users(p) ==
    /\ pc[p] = "count_users"
    /\ Finish(p, "get_stats", "200", Append(ret[p], Len(users)))
    /\ UNCHANGED <<users, posts, now, user, args>>

(***************************************************************************)
(* POST /posts/{post_id}/resonate, POST /posts/{post_id}/cherish           *)
(***************************************************************************)
\* A reaction request arrives with its path parameter; get_current_user runs.
BeginReact(p, o, sub, post_id) ==
    /\ pc[p] = "idle"
    /\ LET r == get_current_user(sub)
       IN  IF r.code # "200"
           THEN /\ Finish(p, o, r.code, <<>>)
                /\ UNCHANGED <<user, args>>
           ELSE /\ pc' = [pc EXCEPT ![p] = "inc_counter"]
                /\ op' = [op EXCEPT ![p] = o]
                /\ user' = [user EXCEPT ![p] = r.u]
                /\ args' = [args EXCEPT ![p].post_id = post_id]
                /\ UNCHANGED <<resp, ret>>
    /\ UNCHANGED <<users, posts, now>>

resonate_post(p, sub, post_id) == BeginReact(p, "resonate_post", sub, post_id)

\* An update that overwrites the counter.
resonate_post_inc_Set(p) ==
    /\ pc[p] = "inc_counter"
    /\ op[p] = "resonate_post"
    /\ posts' = IF args[p].post_id \in DOMAIN posts
                THEN [posts EXCEPT ![args[p].post_id].resonates = 1]
                ELSE posts
    /\ Finish(p, "resonate_post", "200", <<>>)
    /\ UNCHANGED <<users, now, user, args>>

\* db.posts.update_one({"id": post_id}, {"$inc": {"resonates": 1}}): one store
\* step, which matches no document when no post has the identifier.
resonate_post_inc(p) ==
    /\ pc[p] = "inc_counter"
    /\ op[p] = "resonate_post"
    /\ posts' = IF args[p].post_id \in DOMAIN posts
                THEN [posts EXCEPT ![args[p].post_id].resonates = @ + 1]
                ELSE posts
    /\ Finish(p, "resonate_post", "200", <<>>)
    /\ UNCHANGED <<users, now, user, args>>

\* An update that answers 404 when it has matched no post.
cherish_post_inc_Checked(p) ==
    /\ pc[p] = "inc_counter"
    /\ op[p] = "cherish_post"
    /\ posts' = IF args[p].post_id \in DOMAIN posts
                THEN [posts EXCEPT ![args[p].post_id].cherishes = @ + 1]
                ELSE posts
    /\ Finish(p, "cherish_post",
              IF args[p].post_id \in DOMAIN posts THEN "200" ELSE "404", <<>>)
    /\ UNCHANGED <<users, now, user, args>>

cherish_post(p, sub, post_id) == BeginReact(p, "cherish_post", sub, post_id)

\* db.posts.update_one({"id": post_id}, {"$inc": {"cherishes": 1}})
cherish_post_inc(p) ==
    /\ pc[p] = "inc_counter"
    /\ op[p] = "cherish_post"
    /\ posts' = IF args[p].post_id \in DOMAIN posts
                THEN [posts EXCEPT ![args[p].post_id].cherishes = @ + 1]
                ELSE posts
    /\ Finish(p, "cherish_post", "200", <<>>)
    /\ UNCHANGED <<users, now, user, args>>

(***************************************************************************)
(* POST /auth/register (no credential)                                     *)
(***************************************************************************)
\* A register that gives the role of the invite code to the record that has
\* the email already.
register_user_Upgrade(p, email, code) ==
    /\ pc[p] = "idle"
    /\ IF \E i \in DOMAIN users : users[i].email = email
       THEN /\ users' = [i \in DOMAIN users |->
                           IF users[i].email = email /\ code = InviteCode
                           THEN [users[i] EXCEPT !.role = MODERATOR]
                           ELSE users[i]]
            /\ Finish(p, "register_user", "200", <<"User already exists">>)
            /\ UNCHANGED args
       ELSE /\ pc' = [pc EXCEPT ![p] = "register_insert"]
            /\ op' = [op EXCEPT ![p] = "register_user"]
            /\ args' = [args EXCEPT ![p].email = email, ![p].invite_code = code]
            /\ UNCHANGED <<users, resp, ret>>
    /\ UNCHANGED <<posts, now, user>>

\* db.users.find_one({"email": email}): "User already exists" when a record
\* has the email, otherwise on to the insert.
register_user(p, email, code) ==
    /\ pc[p] = "idle"
    /\ IF \E i \in DOMAIN users : users[i].email = email
       THEN /\ Finish(p, "register_user", "200", <<"User already exists">>)
            /\ UNCHANGED args
       ELSE /\ pc' = [pc EXCEPT ![p] = "register_insert"]
            /\ op' = [op EXCEPT ![p] = "register_user"]
            /\ args' = [args EXCEPT ![p].email = email, ![p].invite_code = code]
            /\ UNCHANGED <<resp, ret>>
    /\ UNCHANGED <<users, posts, now, user>>

\* The role by invite code, and insert_one of a User whose clerk_id is a
\* fresh uuid4 string (the string of no token subject).
register_user_insert(p) ==
    /\ pc[p] = "register_insert"
    /\ LET role == IF args[p].invite_code = InviteCode THEN MODERATOR ELSE NEW_USER
       IN  /\ users' = Append(users, NewUser("uuid" \o ToString(Len(users) + 1),
                                             args[p].email, role))
           /\ Finish(p, "register_user", "200", <<"User registered successfully", role>>)
    /\ UNCHANGED <<posts, now, user, args>>

(***************************************************************************)
(* Specifications.  Each draws the callers and the request inputs from     *)
(* small sets and bounds the clock and the number of posts.                *)
(***************************************************************************)
\* No other request is in flight.
Quiet(p) == \A q \in Procs \ {p} : pc[q] = "idle"

AllIdle == \A q \in Procs : pc[q] = "idle"

\* In a sequential specification a request steps only while no other is in flight.
Go(p, seq) == seq => Quiet(p)

\* create_post, step by step, with at most n posts in the store.
CreateSteps(p, authors, n, seq) ==
    \/ (Go(p, seq) /\ \E sub \in authors : create_post(p, sub))
    \/ (Go(p, seq) /\ check_daily_limit(p))
    \/ (Go(p, seq) /\ Len(posts) < n /\ create_post_insert(p))
    \/ (Go(p, seq) /\ create_post_inc(p))

\* review_post, step by step, on the post identifiers 1..n.
ReviewSteps(p, reviewers, n, seq) ==
    \/ (Go(p, seq) /\ \E sub \in reviewers, i \in 1..n, s \in PostStatus :
                         review_post(p, sub, i, s))
    \/ (Go(p, seq) /\ review_post_find(p))
    \/ (Go(p, seq) /\ review_post_update(p))

\* Moderation: alice posts, the two privileged users review.
StepM(p, seq) ==
    \/ CreateSteps(p, {"alice"}, MaxPostsM, seq)
    \/ ReviewSteps(p, {"mod", "seed"}, MaxPostsM, seq)
    \/ (Go(p, seq) /\ Return(p))

NextM ==
    \/ (now < MaxNowM /\ Tick)
    \/ \E p \in Procs : StepM(p, FALSE)

\* Requests are served concurrently: their store steps interleave.
SpecModeration == Init /\ [][NextM]_vars

NextMSeq ==
    \/ (now < MaxNowM /\ Tick)
    \/ \E p \in Procs : StepM(p, TRUE)

\* Requests are served one after another.
SpecModerationSeq == Init /\ [][NextMSeq]_vars

\* Quota: alice and mod post.
StepQ(p, seq) ==
    \/ CreateSteps(p, {"alice", "mod"}, MaxPostsQ, seq)
    \/ (Go(p, seq) /\ Return(p))

NextQ ==
    \/ (now < MaxNowQ /\ Tick)
    \/ \E p \in Procs : StepQ(p, FALSE)

SpecQuota == Init /\ [][NextQ]_vars

\* One request at a time, and midnight passes between requests only.
NextQSeq ==
    \/ (now < MaxNowQ /\ (AllIdle \/ Day(now + 1) = Day(now)) /\ Tick)
    \/ \E p \in Procs : StepQ(p, TRUE)

SpecQuotaSeq == Init /\ [][NextQSeq]_vars

(***************************************************************************)
(* Moderation workflow.                                                    *)
(***************************************************************************)
\* A review has succeeded on post i: only review_post_update sets reviewer_id.
Reviewed(i) == posts[i].reviewer_id # NoId

\* C1: with requests served one after another, a post's status changes at
\* most once, and a privileged review of a post that a review has already
\* succeeded on ends with 400.
C1_ReviewOnce ==
    [][\A i \in DOMAIN posts :
         /\ posts[i].status # PENDING => posts'[i].status = posts[i].status
         /\ \A p \in Procs :
              (/\ pc[p] = "find_post"
               /\ args[p].post_id = i
               /\ Reviewed(i)
               /\ pc'[p] # "find_post") => resp'[p] = "400"]_vars

\* Two finished reviews of the same post, each approving or rejecting it.
BothReviewed(p, q) ==
    /\ p # q
    /\ pc[p] = "done" /\ pc[q] = "done"
    /\ op[p] = "review_post" /\ op[q] = "review_post"
    /\ args[p].post_id = args[q].post_id
    /\ args[p].post_id \in DOMAIN posts
    /\ args[p].status # PENDING /\ args[q].status # PENDING

\* C2: of two concurrent reviews of one pending post only one succeeds, and
\* the status written is written over a status that is still pending.
C2_OneReviewWins ==
    /\ \A p, q \in Procs : BothReviewed(p, q) => ~(resp[p] = "200" /\ resp[q] = "200")
    /\ \A p \in Procs :
          pc[p] = "update_post" => posts[args[p].post_id].status = PENDING

\* C3: approved and rejected are terminal.
C3_Terminal ==
    [][\A i \in DOMAIN posts :
         posts[i].status \in {APPROVED, REJECTED} => posts'[i].status = posts[i].status]_vars

(***************************************************************************)
(* Daily quota.                                                            *)
(***************************************************************************)
\* The posts of user u created on the current calendar day.
CreatedToday(u) ==
    Cardinality({i \in DOMAIN posts :
                    posts[i].user_id = u /\ Day(posts[i].created_at) = Day(now)})

NoneInFlight == \A p \in Procs : pc[p] \in {"idle", "done"}

\* C4: with requests served one after another within a day, posts_today is
\* the number N >= 1 of the user's creations of the day, a create is answered
\* 200 or 429, and it is answered 429 exactly when N was already 3.
C4_QuotaCount ==
    /\ NoneInFlight =>
          \A u \in DOMAIN users :
             CreatedToday(u) >= 1 => users[u].posts_today = CreatedToday(u)
    /\ \A p \in Procs :
          (pc[p] = "done" /\ op[p] = "create_post") =>
             /\ resp[p] \in {"200", "429"}
             /\ resp[p] = "200" => CreatedToday(user[p].id) <= DailyLimit
             /\ resp[p] = "429" => /\ CreatedToday(user[p].id) = DailyLimit
                                   /\ users[user[p].id].posts_today = DailyLimit

C4_Witness ==
    \E p \in Procs :
       /\ pc[p] = "done" /\ op[p] = "create_post" /\ resp[p] = "429"
       /\ CreatedToday(user[p].id) = DailyLimit
       /\ users[user[p].id].posts_today = DailyLimit

\* C5: no user owns more than 3 posts created on one calendar day.
C5_AtMostThree == \A u \in DOMAIN users : CreatedToday(u) <= DailyLimit

\* C6: posts_today of a user whose last_post_date is the current day is
\* never set back.
C6_NoMidDayReset ==
    [][\A u \in DOMAIN users :
         users[u].last_post_date = Day(now) =>
            users'[u].posts_today >= users[u].posts_today]_vars

\* C7: for a user whose last_post_date is the current day, posts_today is
\* the number of the user's posts created that day, in every state.
C7_CountMatchesPosts ==
    \A u \in DOMAIN users :
       users[u].last_post_date = Day(now) => users[u].posts_today = CreatedToday(u)

(***************************************************************************)
(* Stores for the query specifications.  The queries read nothing but the  *)
(* posts' status and created_at, so these specifications start from the    *)
(* stores that earlier requests leave behind: posts of alice, created at   *)
(* the instants ts (day by day; the posts of one day in any insertion      *)
(* order, as concurrent creates leave them), reviewed by mod at instant t. *)
(***************************************************************************)
SeedId(sub) == CHOOSE i \in DOMAIN SeedUsers : SeedUsers[i].clerk_id = sub

StoredPost(created, status, t) ==
    [NewPost(SeedId("alice"), "text", "Human2Human", created) EXCEPT
        !.status = status,
        !.reviewed_at = IF status = PENDING THEN NoTime ELSE t,
        !.reviewer_id = IF status = PENDING THEN NoId ELSE SeedId("mod")]

\* alice's counters after her creates at the instants ts.
UsersAfter(ts) ==
    IF ts = <<>> THEN SeedUsers
    ELSE LET d == Day(ts[Len(ts)])
         IN  [SeedUsers EXCEPT
                 ![SeedId("alice")].last_post_date = d,
                 ![SeedId("alice")].posts_today =
                     Cardinality({i \in DOMAIN ts : Day(ts[i]) = d})]

\* The sequences of at most n instants in 0..t.
Instants(n, t) == UNION {[1..k -> 0..t] : k \in 0..n}

DayOrdered(ts) == \A i, j \in DOMAIN ts : i < j => Day(ts[i]) <= Day(ts[j])
TimeOrdered(ts) == \A i, j \in DOMAIN ts : i < j => ts[i] <= ts[j]

\* The service at instant t over the store of the posts (ts[i], st[i]).
InitStore(ts, st, t) ==
    /\ users = UsersAfter(ts)
    /\ posts = [i \in DOMAIN ts |-> StoredPost(ts[i], st[i], t)]
    /\ now = t
    /\ pc = [p \in Procs |-> "idle"]
    /\ op = [p \in Procs |-> "none"]
    /\ user = [p \in Procs |-> NoUser]
    /\ args = [p \in Procs |-> NoArgs]
    /\ resp = [p \in Procs |-> "none"]
    /\ ret = [p \in Procs |-> <<>>]

(***************************************************************************)
(* Feed.                                                                   *)
(***************************************************************************)
InitF ==
    \E ts \in Instants(MaxPostsF, MaxNowF) :
       /\ DayOrdered(ts)
       /\ \E st \in [DOMAIN ts -> PostStatus] : InitStore(ts, st, MaxNowF)

NextF ==
    \E p \in Procs :
       \/ (Quiet(p) /\ get_daily_feed(p, "alice"))
       \/ (Quiet(p) /\ get_daily_feed_find(p))
       \/ (Quiet(p) /\ Return(p))

\* Feed requests, one after another, over any store.
SpecFeed == InitF /\ [][NextF]_vars

Returned(p, o) == pc[p] = "done" /\ op[p] = o /\ resp[p] = "200"

NoDuplicates(f) == \A k, l \in DOMAIN f : k # l => f[k] # f[l]

Descending(f) ==
    \A k \in DOMAIN f : k < Len(f) => posts[f[k]].created_at >= posts[f[k + 1]].created_at

Ascending(f) ==
    \A k \in DOMAIN f : k < Len(f) => posts[f[k]].created_at <= posts[f[k + 1]].created_at

\* C8: the feed returns at most 3 posts, all approved, newest first, and no
\* approved post it leaves out is newer than one it returns (it leaves none
\* out while it returns fewer than 3).
C8_Feed ==
    \A p \in Procs :
       Returned(p, "get_daily_feed") =>
          LET f == ret[p]
          IN  /\ Len(f) <= FeedLimit
              /\ NoDuplicates(f)
              /\ Range(f) \subseteq Find(APPROVED)
              /\ Descending(f)
              /\ \A j \in Find(APPROVED) \ Range(f) :
                    /\ Len(f) = FeedLimit
                    /\ \A k \in DOMAIN f : posts[j].created_at <= posts[f[k]].created_at

\* The feed has left out approved posts, and a pending and a rejected post.
C8_Witness ==
    \E p \in Procs :
       /\ Returned(p, "get_daily_feed")
       /\ Len(ret[p]) = FeedLimit
       /\ Cardinality(Find(APPROVED)) > FeedLimit
       /\ posts[ret[p][1]].created_at > posts[ret[p][FeedLimit]].created_at
       /\ \E j \in Find(APPROVED) \ Range(ret[p]) : j > ret[p][1]

(***************************************************************************)
(* Moderation queue and curation view.                                     *)
(***************************************************************************)
\* The large stores: n posts created one per instant, all pending, all
\* approved, or pending and approved in turn.
Patterns == {"pending", "approved", "mixed"}

PatternStatus(pat, i) ==
    IF pat = "pending" THEN PENDING
    ELSE IF pat = "approved" THEN APPROVED
    ELSE IF i % 2 = 1 THEN PENDING ELSE APPROVED

InitL ==
    \/ \E ts \in Instants(MaxPostsL, MaxNowL) :
          /\ DayOrdered(ts)
          /\ \E st \in [DOMAIN ts -> PostStatus] : InitStore(ts, st, MaxNowL)
    \/ \E n \in {ListCap - 1, ListCap, ListCap + 1}, pat \in Patterns :
          InitStore([i \in 1..n |-> i], [i \in 1..n |-> PatternStatus(pat, i)], n)

NextL ==
    \E p \in Procs :
       \/ (Quiet(p) /\ get_pending_posts(p, "mod"))
       \/ (Quiet(p) /\ get_pending_posts_find(p))
       \/ (Quiet(p) /\ get_approved_posts(p, "mod"))
       \/ (Quiet(p) /\ get_approved_posts_find(p))
       \/ (Quiet(p) /\ Return(p))

\* Requests for the two lists, one after another, over small and large stores.
SpecList == InitL /\ [][NextL]_vars

\* f lists exactly the posts of S.
ListsAll(f, S) == NoDuplicates(f) /\ Range(f) = S

\* f lists the first posts of S, all of them or ListCap of them.
ListsFirst(f, S, dir) ==
    /\ NoDuplicates(f)
    /\ Range(f) \subseteq S
    /\ Len(f) = Min(ListCap, Cardinality(S))
    /\ \A j \in S \ Range(f) : \A k \in DOMAIN f : InOrder(f[k], j, dir)

InitA ==
    \E ts \in Instants(MaxPostsA, MaxNowA) :
       /\ TimeOrdered(ts)
       /\ InitStore(ts, [i \in DOMAIN ts |-> PENDING], MaxNowA)

NextA ==
    \E p \in Procs :
       \/ ReviewSteps(p, {"mod"}, MaxPostsA, TRUE)
       \/ (Quiet(p) /\ \E sub \in {"alice", "mod"} : get_daily_feed(p, sub))
       \/ (Quiet(p) /\ get_daily_feed_find(p))
       \/ (Quiet(p) /\ Return(p))

\* mod reviews the pending posts and users ask for the feed, one request
\* after another.
SpecApprove == InitA /\ [][NextA]_vars

\* The approved posts other than i that are not older than post i.
AsNew(i) == {j \in Find(APPROVED) \ {i} : posts[j].created_at >= posts[i].created_at}

\* C10 as stated: a feed returns every post that a review has approved.
C10_FeedHasApproved ==
    \A p \in Procs :
       Returned(p, "get_daily_feed") =>
          \A i \in Find(APPROVED) : Reviewed(i) => i \in Range(ret[p])

\* C10, amended: a feed returns every post that is approved when the feed is
\* asked for, unless 3 or more other approved posts were created at the same
\* instant as it or later.
C10_FeedHasNewestApproved ==
    \A p \in Procs :
       Returned(p, "get_daily_feed") =>
          \A i \in Find(APPROVED) :
             (Reviewed(i) /\ Cardinality(AsNew(i)) < FeedLimit) => i \in Range(ret[p])

\* A feed that holds a post approved by a review and leaves another one out.
C10_Witness ==
    \E p \in Procs :
       /\ Returned(p, "get_daily_feed")
       /\ \E i \in Find(APPROVED) :
             Reviewed(i) /\ AsNew(i) # {} /\ i \in Range(ret[p])
       /\ Find(APPROVED) \ Range(ret[p]) # {}

(***************************************************************************)
(* The moderator guard.                                                    *)
(***************************************************************************)
\* The three read-only moderator operations, step by step.
ModeratorQuerySteps(p, callers, seq) ==
    \/ (Go(p, seq) /\ \E sub \in callers : get_pending_posts(p, sub))
    \/ (Go(p, seq) /\ get_pending_posts_find(p))
    \/ (Go(p, seq) /\ \E sub \in callers : get_approved_posts(p, sub))
    \/ (Go(p, seq) /\ get_approved_posts_find(p))
    \/ (Go(p, seq) /\ \E sub \in callers : get_stats(p, sub))
    \/ (Go(p, seq) /\ get_stats_pending(p))
    \/ (Go(p, seq) /\ get_stats_approved(p))
    \/ (Go(p, seq) /\ get_stats_users(p))

NextG ==
    \/ (now < MaxNowG /\ Tick)
    \/ \E p \in Procs :
          \/ CreateSteps(p, {"alice"}, MaxPostsG, TRUE)
          \/ ReviewSteps(p, {"alice", "mod", "seed"}, MaxPostsG, TRUE)
          \/ ModeratorQuerySteps(p, {"alice", "mod", "seed"}, TRUE)
          \/ (Quiet(p) /\ Return(p))

\* alice posts; alice, mod and seed call the moderator operations.
SpecGuard == Init /\ [][NextG]_vars

\* The step is the arrival of a moderator operation sent by subject sub.
ModeratorCall(p, sub) ==
    \/ get_pending_posts(p, sub)
    \/ get_approved_posts(p, sub)
    \/ get_stats(p, sub)
    \/ \E i \in 1..MaxPostsG, s \in PostStatus : review_post(p, sub, i, s)

\* C11: a moderator operation called by a user whose role is neither
\* moderator nor seed_user ends with 403 and changes no user and no post, and
\* a post's status changes only by the write of a review whose caller holds
\* one of the two roles.
C11_Guard ==
    [][/\ \A p \in Procs, sub \in Subjects :
             LET i == FindUserByClerkId(sub)
             IN  (/\ i # NoId
                  /\ users[i].role \notin {MODERATOR, SEED_USER}
                  /\ ModeratorCall(p, sub)) =>
                     /\ pc'[p] = "done" /\ resp'[p] = "403"
                     /\ users' = users /\ posts' = posts
       /\ \A i \in DOMAIN posts :
             posts'[i].status # posts[i].status =>
                \E p \in Procs :
                   /\ pc[p] = "update_post" /\ pc'[p] = "done"
                   /\ args[p].post_id = i
                   /\ users[user[p].id].role \in {MODERATOR, SEED_USER}]_vars

\* A review was refused with 403 (alice's: the other callers are privileged),
\* and the review of a privileged user has approved a post.
C11_Witness ==
    \E p \in Procs :
       /\ pc[p] = "done" /\ op[p] = "review_post" /\ resp[p] = "403"
       /\ \E i \in Find(APPROVED) : Reviewed(i)

(***************************************************************************)
(* Identity: sync, get-me, and the operations behind get_current_user      *)
(* called by bob, who has no local user until his first sync.              *)
(***************************************************************************)
\* resonate and cherish, step by step, on the post identifiers ids, while the
\* counter of the post is below n.
ReactSteps(p, callers, ids, n, seq) ==
    \/ (Go(p, seq) /\ \E sub \in callers, i \in ids : resonate_post(p, sub, i))
    \/ (/\ Go(p, seq)
        /\ args[p].post_id \in DOMAIN posts => posts[args[p].post_id].resonates < n
        /\ resonate_post_inc(p))
    \/ (Go(p, seq) /\ \E sub \in callers, i \in ids : cherish_post(p, sub, i))
    \/ (/\ Go(p, seq)
        /\ args[p].post_id \in DOMAIN posts => posts[args[p].post_id].cherishes < n
        /\ cherish_post_inc(p))

\* sync, step by step.
SyncSteps(p, subs, seq) ==
    \/ (Go(p, seq) /\ \E sub \in subs, hasEmail \in BOOLEAN : sync_user(p, sub, hasEmail))
    \/ (Go(p, seq) /\ sync_user_insert(p))

\* The post identifiers of the identity specifications: those of the posts
\* and one that no post has.
PostIdsI == 1..(MaxPostsI + 1)

StepI(p, seq) ==
    \/ SyncSteps(p, {"alice", "bob", NoSub}, seq)
    \/ (Go(p, seq) /\ \E sub \in {"alice", "bob", NoSub} : get_me(p, sub))
    \/ CreateSteps(p, {"bob"}, MaxPostsI, seq)
    \/ ReviewSteps(p, {"bob", "mod"}, MaxPostsI + 1, seq)
    \/ ModeratorQuerySteps(p, {"bob", "mod"}, seq)
    \/ (Go(p, seq) /\ get_daily_feed(p, "bob"))
    \/ (Go(p, seq) /\ get_daily_feed_find(p))
    \/ ReactSteps(p, {"bob"}, PostIdsI, MaxReactI, seq)
    \/ (Go(p, seq) /\ Return(p))

NextISeq == \E p \in Procs : StepI(p, TRUE)

\* Requests are served one after another; the clock stands still.
SpecIdentitySeq == Init /\ [][NextISeq]_vars

\* The user records of subject sub.
RecordsOf(sub) == {i \in DOMAIN users : users[i].clerk_id = sub}

\* C12: with requests served one after another, a sync for a subject
\* without a local user goes on to insert exactly one record (role new_user,
\* posts_today 0, no last_post_date) and reports it as created; a sync for a
\* subject with a local user inserts and changes nothing, reports 'exists'
\* and returns the identifier of the subject's one record.
C12_SyncIdempotent ==
    [][\A p \in Procs :
         /\ \A sub \in Subjects :
               sync_user(p, sub, TRUE) =>
                  /\ users' = users
                  /\ IF RecordsOf(sub) = {}
                     THEN pc'[p] = "sync_insert"
                     ELSE /\ pc'[p] = "done" /\ resp'[p] = "200"
                          /\ ret'[p][1] = "User exists"
                          /\ RecordsOf(sub) = {ret'[p][2]}
         /\ (pc[p] = "sync_insert" /\ pc'[p] = "done") =>
               /\ RecordsOf(args[p].sub) = {}
               /\ Len(users') = Len(users) + 1
               /\ \A i \in DOMAIN users : users'[i] = users[i]
               /\ users'[Len(users')] =
                     [clerk_id |-> args[p].sub, email |-> EmailOf(args[p].sub),
                      role |-> NEW_USER, posts_today |-> 0, last_post_date |-> NoDate]
               /\ resp'[p] = "200"
               /\ ret'[p] = <<"User created", Len(users')>>]_vars

\* A later sync of bob, who has posted since his first sync, reports that his
\* record exists.
C12_Witness ==
    \E p \in Procs :
       /\ pc[p] = "done" /\ op[p] = "sync_user" /\ resp[p] = "200"
       /\ ret[p][1] = "User exists"
       /\ users[ret[p][2]].clerk_id = "bob"
       /\ users[ret[p][2]].posts_today >= 1

\* The step is the arrival of an operation that depends on get_current_user,
\* sent by subject sub.
UserCall(p, sub) ==
    \/ get_me(p, sub)
    \/ create_post(p, sub)
    \/ get_daily_feed(p, sub)
    \/ get_pending_posts(p, sub)
    \/ get_approved_posts(p, sub)
    \/ get_stats(p, sub)
    \/ \E i \in PostIdsI :
          \/ resonate_post(p, sub, i)
          \/ cherish_post(p, sub, i)
          \/ \E s \in PostStatus : review_post(p, sub, i, s)

\* C13: an operation that depends on get_current_user, called for a subject
\* without a local user, ends with 404 and changes neither users nor posts;
\* a sync answered 200 returns the identifier of the subject's one record, and
\* get-me for a subject with a local user is answered 200 with that identifier.
C13_SyncBeforeUse ==
    [][\A p \in Procs :
         /\ \A sub \in Subjects :
               /\ (RecordsOf(sub) = {} /\ UserCall(p, sub)) =>
                     /\ pc'[p] = "done" /\ resp'[p] = "404"
                     /\ users' = users /\ posts' = posts
               /\ (RecordsOf(sub) # {} /\ get_me(p, sub)) =>
                     /\ resp'[p] = "200"
                     /\ RecordsOf(sub) = {ret'[p][1]}
               /\ (sync_user(p, sub, TRUE) /\ pc'[p] = "done") =>
                     RecordsOf(sub) = {ret'[p][2]}
         /\ (pc[p] = "sync_insert" /\ pc'[p] = "done") =>
               {i \in DOMAIN users' : users'[i].clerk_id = args[p].sub} = {ret'[p][2]}]_vars

\* get-me answers bob with the record that his sync created.
C13_Witness ==
    \E p \in Procs :
       /\ pc[p] = "done" /\ op[p] = "get_me" /\ resp[p] = "200"
       /\ users[ret[p][1]].clerk_id = "bob"

(***************************************************************************)
(* Reactions.                                                              *)
(***************************************************************************)
NextR ==
    \E p \in Procs :
       \/ CreateSteps(p, {"alice"}, MaxPostsR, FALSE)
       \/ ReviewSteps(p, {"mod"}, MaxPostsR, FALSE)
       \/ ReactSteps(p, {"alice"}, {1, MaxPostsR + 1}, MaxReactR, FALSE)
       \/ Return(p)

\* alice posts and reacts and mod reviews; the requests are served
\* concurrently.  The reactions name the first post, before and after it
\* exists, and an identifier that no post has.  The clock stands still.
SpecReact == Init /\ [][NextR]_vars

\* The requests whose update_one with $inc for operation o on post i is the step.
Incrementing(o, i) ==
    {p \in Procs : /\ pc[p] = "inc_counter" /\ op[p] = o /\ args[p].post_id = i
                   /\ pc'[p] = "done"}

\* C14: in every step each counter of each post grows by the number of
\* resonate (cherish) updates on the post that the step performs, 1 or 0: the
\* update of a resonate call adds exactly 1 to resonates and that of a cherish
\* call exactly 1 to cherishes, and no create, review or other reaction takes
\* an increment back.
C14_CountersCount ==
    [][\A i \in DOMAIN posts :
         /\ posts'[i].resonates =
               posts[i].resonates + Cardinality(Incrementing("resonate_post", i))
         /\ posts'[i].cherishes =
               posts[i].cherishes + Cardinality(Incrementing("cherish_post", i))]_vars

\* A reviewed post with two resonates and a cherish, while a further
\* reaction to it is in flight.
C14_Witness ==
    \E i \in DOMAIN posts :
       /\ posts[i].resonates = 2
       /\ posts[i].cherishes >= 1
       /\ Reviewed(i)
       /\ \E p \in Procs : pc[p] = "inc_counter" /\ args[p].post_id = i

\* C15: the update of a resonate or cherish whose identifier no post has is
\* answered 200, adds no post and leaves every post and user as it was.
C15_MissingPostNoOp ==
    [][\A p \in Procs :
         (/\ pc[p] = "inc_counter"
          /\ args[p].post_id \notin DOMAIN posts
          /\ pc'[p] # pc[p]) =>
             /\ pc'[p] = "done" /\ resp'[p] = "200"
             /\ posts' = posts
             /\ users' = users]_vars

\* A cherish of an identifier that no post has was answered 200, with a post
\* in the store.
C15_Witness ==
    \E p \in Procs :
       /\ Returned(p, "cherish_post")
       /\ args[p].post_id \notin DOMAIN posts
       /\ posts # <<>>

(***************************************************************************)
(* The quota over midnight.                                                *)
(***************************************************************************)
\* The number of posts of user u created on calendar day d.
CreatedOn(u, d) ==
    Cardinality({i \in DOMAIN posts : posts[i].user_id = u /\ Day(posts[i].created_at) = d})

\* C16: with requests served one after another, a user's first create of a
\* day is not answered 429, whatever the user posted the day before (it is
\* answered and the user has a post of the day), and after it posts_today is
\* 1 and last_post_date is the day.
C16_NextDayCreate ==
    \A p \in Procs :
       (pc[p] = "done" /\ op[p] = "create_post") =>
          LET u == user[p].id
          IN  /\ resp[p] \in {"200", "429"}
              /\ CreatedOn(u, Day(now)) >= 1
              /\ (resp[p] = "200" /\ CreatedOn(u, Day(now)) = 1) =>
                    /\ users[u].posts_today = 1
                    /\ users[u].last_post_date = Day(now)

\* The user reached the limit yesterday, and today's first create succeeded.
C16_Witness ==
    \E p \in Procs :
       /\ pc[p] = "done" /\ op[p] = "create_post" /\ resp[p] = "200"
       /\ CreatedOn(user[p].id, Day(now) - 1) = DailyLimit
       /\ CreatedOn(user[p].id, Day(now)) = 1
       /\ users[user[p].id].posts_today = 1
       /\ users[user[p].id].last_post_date = Day(now)

(***************************************************************************)
(* Requests that end with an error.                                        *)
(***************************************************************************)
NextESeq ==
    \/ (now < MaxNowE /\ Tick)
    \/ \E p \in Procs :
          \/ SyncSteps(p, {"bob", NoSub}, TRUE)
          \/ (Quiet(p) /\ \E sub \in {"bob", NoSub} : get_me(p, sub))
          \/ CreateSteps(p, {"alice", "bob", NoSub}, MaxPostsE, TRUE)
          \/ (Quiet(p) /\ \E sub \in {"alice", "mod", NoSub},
                             i \in {1, MaxPostsE + 1}, s \in PostStatus :
                                review_post(p, sub, i, s))
          \/ (Quiet(p) /\ review_post_find(p))
          \/ (Quiet(p) /\ review_post_update(p))
          \/ (Quiet(p) /\ Return(p))

\* Requests with every error outcome, one after another: payloads without
\* subject or email, bob before his sync, alice as reviewer, reviews of a
\* missing and of a reviewed post, creates at the limit.
SpecErrorsSeq == Init /\ [][NextESeq]_vars

\* The request has passed its checks: its steps to come are store writes.
PastChecks(p) == pc[p] \in {"insert_post", "inc_posts_today"}

\* C17: the step that ends a request with an error outcome changes neither
\* users nor posts, and a step of a request that changes users or posts is
\* followed in that request by writes and the answer 200 only: a request that
\* ends with an error has written nothing.
C17_ErrorsWriteNothing ==
    [][\A p \in Procs :
         /\ (pc[p] # "done" /\ pc'[p] = "done" /\ resp'[p] # "200") =>
               /\ resp'[p] \in {"400", "401", "403", "404", "429"}
               /\ users' = users /\ posts' = posts
         /\ (pc'[p] # pc[p] /\ (users' # users \/ posts' # posts)) =>
               PastChecks(p)' \/ (pc'[p] = "done" /\ resp'[p] = "200")
         /\ (PastChecks(p) /\ pc'[p] # pc[p]) =>
               PastChecks(p)' \/ (pc'[p] = "done" /\ resp'[p] = "200")]_vars

\* A create was refused at the limit, and the counter is as the user's third
\* create of the day left it.
C17_Witness ==
    \E p \in Procs :
       /\ pc[p] = "done" /\ op[p] = "create_post" /\ resp[p] = "429"
       /\ users[user[p].id].posts_today = DailyLimit
       /\ users[user[p].id].last_post_date = Day(now)
       /\ CreatedOn(user[p].id, Day(now)) = DailyLimit

(***************************************************************************)
(* Registration by invite code.                                            *)
(***************************************************************************)
NextRegSeq ==
    \E p \in Procs :
       \/ (Quiet(p) /\ \E sub \in {"alice", "bob"}, code \in InviteCodes :
                          register_user(p, EmailOf(sub), code))
       \/ (Quiet(p) /\ register_user_insert(p))
       \/ SyncSteps(p, {"alice", "bob"}, TRUE)
       \/ (Quiet(p) /\ \E sub \in {"alice", "bob"} : get_me(p, sub))
       \/ ModeratorQuerySteps(p, {"bob", "mod"}, TRUE)
       \/ (Quiet(p) /\ Return(p))

\* Registrations of bob's and alice's email, their syncs, and moderator
\* operations called by bob, one request after another.
SpecRegisterSeq == Init /\ [][NextRegSeq]_vars

\* Record i was inserted by register: its clerk_id is no token's subject.
Registered(i) == users[i].clerk_id \notin Subjects

\* C18: once a user has synced with a credential that carries an email
\* registered before with the valid invite code, the user holds the moderator
\* role and passes require_moderator; with an email registered without the
\* code the user holds new_user.
C18_InviteProvisions ==
    \A i \in DOMAIN users, sub \in Subjects :
       (Registered(i) /\ users[i].email = EmailOf(sub) /\ RecordsOf(sub) # {}) =>
          /\ get_current_user(sub).u.role = users[i].role
          /\ users[i].role = MODERATOR => require_moderator(sub).code = "200"

(***************************************************************************)
(* What a review records.                                                  *)
(***************************************************************************)
\* C19: a post is pending exactly when its reviewer reference and its review
\* timestamp are unset, and the reviewer of a post that is not pending is a
\* user holding the moderator or seed_user role.
C19_ReviewRecorded ==
    \A i \in DOMAIN posts :
       /\ posts[i].status = PENDING <=>
             (posts[i].reviewer_id = NoId /\ posts[i].reviewed_at = NoTime)
       /\ posts[i].status # PENDING =>
             /\ posts[i].reviewer_id \in DOMAIN users
             /\ users[posts[i].reviewer_id].role \in {MODERATOR, SEED_USER}

(***************************************************************************)
(* Concurrent syncs.                                                       *)
(***************************************************************************)
NextS ==
    \E p \in Procs :
       \/ SyncSteps(p, {"alice", "bob", NoSub}, FALSE)
       \/ \E sub \in {"alice", "bob"} : get_me(p, sub)
       \/ Return(p)

\* Syncs and get-me requests of alice and bob, served concurrently.
SpecSync == Init /\ [][NextS]_vars

\* C20: no subject has more than one user record.
C20_OneUserPerSubject ==
    \A sub \in Subjects : Cardinality(RecordsOf(sub)) <= 1

(***************************************************************************)
(* The life of the records.                                                *)
(***************************************************************************)
\* register, step by step.
RegisterSteps(p, subs, seq) ==
    \/ (Go(p, seq) /\ \E sub \in subs, code \in InviteCodes :
                         register_user(p, EmailOf(sub), code))
    \/ (Go(p, seq) /\ register_user_insert(p))

NextK ==
    \E p \in Procs :
       \/ RegisterSteps(p, {"alice", "bob"}, FALSE)
       \/ SyncSteps(p, {"bob"}, FALSE)
       \/ CreateSteps(p, {"bob"}, MaxPostsK, FALSE)
       \/ ReviewSteps(p, {"mod"}, MaxPostsK, FALSE)
       \/ Return(p)

\* The operations that add records or write to user records or to a post's
\* status, served concurrently: registrations of alice's and bob's email,
\* bob's syncs and posts, mod's reviews.  The clock stands still.
SpecRecords == Init /\ [][NextK]_vars

\* C21: in every step each user record and each post record stays in the
\* store under its identifier, a user record keeps its role, and a user
\* record that the step adds has the role new_user when a sync adds it and
\* new_user or moderator when a register adds it.
C21_RecordsStay ==
    [][/\ Len(users') >= Len(users)
       /\ Len(posts') >= Len(posts)
       /\ \A i \in DOMAIN users :
             /\ users'[i].role = users[i].role
             /\ users'[i].clerk_id = users[i].clerk_id
             /\ users'[i].email = users[i].email
       /\ \A i \in DOMAIN posts :
             /\ posts'[i].user_id = posts[i].user_id
             /\ posts'[i].created_at = posts[i].created_at
       /\ \A i \in DOMAIN users' \ DOMAIN users :
             /\ (\E p \in Procs : pc[p] = "sync_insert" /\ pc'[p] = "done") =>
                   users'[i].role = NEW_USER
             /\ (\E p \in Procs : pc[p] = "register_insert" /\ pc'[p] = "done") =>
                   users'[i].role \in {NEW_USER, MODERATOR}
             /\ \E p \in Procs : pc[p] \in {"sync_insert", "register_insert"}
                                    /\ pc'[p] = "done"]_vars

\* bob's email is registered as moderator, bob has synced and posted, and
\* his post is reviewed.
C21_Witness ==
    /\ \E i \in DOMAIN users :
          Registered(i) /\ users[i].email = EmailOf("bob") /\ users[i].role = MODERATOR
    /\ \E i \in RecordsOf("bob") : users[i].role = NEW_USER /\ users[i].posts_today >= 1
    /\ \E i \in DOMAIN posts : Reviewed(i)

(***************************************************************************)
(* What each write touches.                                                *)
(***************************************************************************)
\* posts' is posts but for the fields status, reviewed_at, reviewer_id of post i.
OnlyReviewFields(i) ==
    posts' = [posts EXCEPT ![i] = [posts[i] EXCEPT !.status = posts'[i].status,
                                                   !.reviewed_at = posts'[i].reviewed_at,
                                                   !.reviewer_id = posts'[i].reviewer_id]]

\* users' is users but for the fields posts_today, last_post_date of user u.
OnlyQuotaFields(u) ==
    users' = [users EXCEPT ![u] = [users[u] EXCEPT
                                      !.posts_today = users'[u].posts_today,
                                      !.last_post_date = users'[u].last_post_date]]

\* C22: the update of a review changes status, review timestamp and reviewer
\* of its post and nothing else; the update of a resonate (cherish) changes
\* the resonates (cherishes) of its post and nothing else; the steps of a
\* create change, of the users, posts_today and last_post_date of the owner
\* only, and add a post without changing another; no step makes a counter
\* of a post smaller.
C22_Frames ==
    [][/\ \A p \in Procs :
             LET i == args[p].post_id
             IN  /\ (pc[p] = "update_post" /\ pc'[p] # pc[p]) =>
                       OnlyReviewFields(i) /\ users' = users
                 /\ (pc[p] = "inc_counter" /\ pc'[p] # pc[p]) =>
                       /\ users' = users
                       /\ IF i \notin DOMAIN posts THEN posts' = posts
                          ELSE IF op[p] = "resonate_post"
                          THEN posts' = [posts EXCEPT ![i].resonates = posts'[i].resonates]
                          ELSE posts' = [posts EXCEPT ![i].cherishes = posts'[i].cherishes]
                 /\ (pc[p] \in {"check_daily_limit", "inc_posts_today"} /\ pc'[p] # pc[p]) =>
                       OnlyQuotaFields(user[p].id) /\ posts' = posts
                 /\ (pc[p] = "insert_post" /\ pc'[p] # pc[p]) =>
                       /\ users' = users
                       /\ Len(posts') = Len(posts) + 1
                       /\ \A j \in DOMAIN posts : posts'[j] = posts[j]
       /\ \A j \in DOMAIN posts :
             /\ posts'[j].resonates >= posts[j].resonates
             /\ posts'[j].cherishes >= posts[j].cherishes]_vars

\* A review of a post with a resonate and a cherish has succeeded while a
\* further reaction to the post is in flight.
C22_Witness ==
    \E p, q \in Procs :
       /\ Returned(p, "review_post")
       /\ args[p].post_id \in DOMAIN posts
       /\ posts[args[p].post_id].resonates >= 1
       /\ posts[args[p].post_id].cherishes >= 1
       /\ pc[q] = "inc_counter" /\ args[q].post_id = args[p].post_id

=============================================================================
